---------------------------- MODULE Spec2Model ----------------------------
(***************************************************************************)
(* Model of the workbook scraper of src/app.py: parse_month_sheet, which   *)
(* scans one sheet's raw grid for the Home, Bangalore, Funds and the two   *)
(* Loans sections, and load_workbook, which tags every record with the     *)
(* sheet name and appends it to one of four running tables.                *)
(*                                                                         *)
(* A cell is a tagged value: text, number or empty (NaN).  Text is a TLA+  *)
(* string; str.strip, str.lower and str.startswith are computed character  *)
(* by character.  A DataFrame is its shape and its columns; df.iat outside *)
(* the shape raises IndexError, which ends the whole load.                 *)
(*                                                                         *)
(* main is the Streamlit script: every interaction with a widget runs it   *)
(* again from the top over the same st.session_state.  A run passes the    *)
(* login gate, calls load_workbook (cached by st.cache_data once it has    *)
(* returned) and shows the page selected in the sidebar.                   *)
(***************************************************************************)
EXTENDS Integers, Sequences, FiniteSets, TLC

VARIABLES
    book,                \* the workbook: sequence of [name, grid], in file order
    pos,                 \* number of sheets of xls.sheet_names already taken
    pc,                  \* "read" | "parse" | "append" | "done" | "raised",
                         \* "idle" before main's first call of load_workbook
    sheet_name,          \* load_workbook's loop variable
    df,                  \* the grid read for the current sheet
    start,               \* parse_month_sheet's five header indices (-1: None)
    bang_idx,
    funds_header_idx,
    loans_header_idx,
    friends_header_idx,
    appended,            \* per scan, the row indices at which its append ran
    categories,          \* parse_month_sheet's four result lists
    funds,
    loans_home,
    loans_friends,
    cat_rows,            \* load_workbook's four running tables
    funds_rows,
    loans_home_rows,
    loans_friends_rows,
    secrets,             \* st.secrets, a dict
    session_state,       \* st.session_state, a dict
    username_input,      \* the value of the 'Username' text input
    password_input,      \* the value of the 'Password' text input
    pressed,             \* the button whose press started this run, "" if none
    page,                \* the value of the sidebar's 'Navigation' selectbox
    at,                  \* main's position: "run" | "load" | "loading" | "page",
                         \* "stopped" | "failed" | "shown" once the run is over,
                         \* "none" when load_workbook is called on its own
    runs,                \* number of script runs started in the session
    cached               \* st.cache_data holds load_workbook(default_file)

locals == <<start, bang_idx, funds_header_idx, loans_header_idx,
            friends_header_idx, appended, categories, funds, loans_home,
            loans_friends>>

tables == <<cat_rows, funds_rows, loans_home_rows, loans_friends_rows>>

script == <<secrets, session_state, username_input, password_input, pressed,
            page, at, runs, cached>>

vars == <<book, pos, pc, sheet_name, df, locals, tables, script>>

(***************************************************************************)
(* Cells.                                                                  *)
(***************************************************************************)
Text(s) == [t |-> "text", s |-> s, n |-> 0]
Num(n)  == [t |-> "num", s |-> "", n |-> n]
NaN     == [t |-> "empty", s |-> "", n |-> 0]
None    == [t |-> "none", s |-> "", n |-> 0]

\* isinstance(cell, str)
isinstance_str(cell) == cell.t = "text"

\* pd.isna(cell) / pd.notna(cell) on a scalar
isna(cell)  == cell.t \in {"empty", "none"}
notna(cell) == ~isna(cell)

(***************************************************************************)
(* Strings.                                                                *)
(***************************************************************************)
UpperChars == "ABCDEFGHIJKLMNOPQRSTUVWXYZ"
LowerChars == "abcdefghijklmnopqrstuvwxyz"

CharAt(s, k) == SubSeq(s, k, k)

IsSpace(c) == c \in {" ", "\t", "\n", "\r"}

\* the lower-case letter of every upper-case letter
LowerOf == [c \in {CharAt(UpperChars, k) : k \in 1..Len(UpperChars)} |->
               CharAt(LowerChars, CHOOSE k \in 1..Len(UpperChars) : CharAt(UpperChars, k) = c)]

\* str.lower() on one character
LowerChar(c) == IF c \in DOMAIN LowerOf THEN LowerOf[c] ELSE c

RECURSIVE lower(_)
lower(s) ==
    IF Len(s) = 0 THEN ""
    ELSE LowerChar(CharAt(s, 1)) \o lower(SubSeq(s, 2, Len(s)))

RECURSIVE lstrip(_)
lstrip(s) ==
    IF Len(s) > 0 /\ IsSpace(CharAt(s, 1)) THEN lstrip(SubSeq(s, 2, Len(s))) ELSE s

RECURSIVE rstrip(_)
rstrip(s) ==
    IF Len(s) > 0 /\ IsSpace(CharAt(s, Len(s))) THEN rstrip(SubSeq(s, 1, Len(s) - 1)) ELSE s

\* str.strip()
strip(s) == rstrip(lstrip(s))

\* str.startswith(prefix)
startswith(s, prefix) ==
    Len(s) >= Len(prefix) /\ SubSeq(s, 1, Len(prefix)) = prefix

\* str(name) of a non-NaN cell
str(cell) == IF cell.t = "num" THEN ToString(cell.n) ELSE cell.s


(***************************************************************************)
(* DataFrame: shape (h, w) and its columns; cols[c][i+1] is df.iat[i, c],  *)
(* and a column that cols does not hold is all empty cells.                *)
(***************************************************************************)
len(d) == d.h

shape1(d) == d.w

iat(d, i, c) == IF c \in DOMAIN d.cols THEN d.cols[c][i + 1] ELSE NaN

\* df.iat[i, c] raises IndexError when the position is outside the shape
IndexError(d, i, c) == ~(i < d.h /\ c < d.w)

(***************************************************************************)
(* parse_month_sheet.  Each scan is split in two: the rows for which the   *)
(* loop body reaches its append, in order, and the record appended for     *)
(* such a row.  -1 stands for a header index of None.                      *)
(***************************************************************************)
\* mutation of HomeStops: the primary scan does not stop at 'bangalore'
HomeStopsNoBangalore == {"funds", "salary", "loans/interest - home side",
                         "friends side", "loans/interest"}

HomeStops == {"bangalore", "funds", "salary", "loans/interest - home side",
              "friends side", "loans/interest"}

BangaloreStops == {"funds", "salary", "loans/interest - home side",
                   "friends side", "loans/interest"}

FundsSkips == {"planned payments", "salary"}

\* mutation of MatchExact: the cell is lower-cased but not stripped
MatchNoStrip(cell, keyword) == isinstance_str(cell) /\ lower(cell.s) = keyword

\* the test of find_row_index and of the funds header loop
MatchExact(cell, keyword) == isinstance_str(cell) /\ lower(strip(cell.s)) = keyword

\* the test of the two loans header loops
MatchPrefix(cell, keyword) ==
    isinstance_str(cell) /\ startswith(lower(strip(cell.s)), keyword)

\* a header loop from row i on: the first row whose cell passes the test
RECURSIVE FindFrom(_, _, _, _, _)
FindFrom(d, col, keyword, prefix, i) ==
    IF i >= len(d) THEN -1
    ELSE IF (IF prefix THEN MatchPrefix(iat(d, i, col), keyword)
                       ELSE MatchExact(iat(d, i, col), keyword))
         THEN i
         ELSE FindFrom(d, col, keyword, prefix, i + 1)

\* mutation of find_row_index: row 0 when no cell matches
find_row_index_or_zero(d, col, keyword) ==
    IF FindFrom(d, col, keyword, FALSE, 0) = -1 THEN 0
    ELSE FindFrom(d, col, keyword, FALSE, 0)

\* find_row_index(col, keyword), and the funds header loop
find_row_index(d, col, keyword) == FindFrom(d, col, keyword, FALSE, 0)

\* the header loops of the two loans sections
find_prefix_index(d, col, keyword) == FindFrom(d, col, keyword, TRUE, 0)

\* mutation of CategoryRows: only a blank name ends the scan
RECURSIVE CategoryRowsNoStop(_, _, _)
CategoryRowsNoStop(d, stops, i) ==
    IF i >= len(d) THEN <<>>
    ELSE IF isna(iat(d, i, 0)) THEN <<>>
    ELSE <<i>> \o CategoryRowsNoStop(d, stops, i + 1)

\* rows of a category scan from row i on: stop at a blank name or a stop word
RECURSIVE CategoryRows(_, _, _)
CategoryRows(d, stops, i) ==
    IF i >= len(d) THEN <<>>
    ELSE IF isna(iat(d, i, 0)) THEN <<>>
    ELSE IF lower(strip(str(iat(d, i, 0)))) \in stops THEN <<>>
    ELSE <<i>> \o CategoryRows(d, stops, i + 1)

\* mutation of FundsRows: a reserved row ends the scan
RECURSIVE FundsRowsStop(_, _)
FundsRowsStop(d, k) ==
    IF k >= len(d) THEN <<>>
    ELSE IF isna(iat(d, k, 7)) THEN <<>>
    ELSE IF lower(strip(str(iat(d, k, 7)))) \in FundsSkips THEN <<>>
    ELSE <<k>> \o FundsRowsStop(d, k + 1)

\* rows of the funds scan from row k on: stop at a blank name, skip reserved rows
RECURSIVE FundsRows(_, _)
FundsRows(d, k) ==
    IF k >= len(d) THEN <<>>
    ELSE IF isna(iat(d, k, 7)) THEN <<>>
    ELSE IF lower(strip(str(iat(d, k, 7)))) \in FundsSkips THEN FundsRows(d, k + 1)
    ELSE <<k>> \o FundsRows(d, k + 1)

\* mutation of LoansHomeRows: only a blank name ends the scan
RECURSIVE LoansHomeRowsNoStop(_, _)
LoansHomeRowsNoStop(d, k) ==
    IF k >= len(d) THEN <<>>
    ELSE IF isna(iat(d, k, 10)) THEN <<>>
    ELSE <<k>> \o LoansHomeRowsNoStop(d, k + 1)

\* rows of the home-side loans scan: stop at a blank name or at 'friends side...'
RECURSIVE LoansHomeRows(_, _)
LoansHomeRows(d, k) ==
    IF k >= len(d) THEN <<>>
    ELSE IF isna(iat(d, k, 10)) THEN <<>>
    ELSE IF startswith(lower(strip(str(iat(d, k, 10)))), "friends side") THEN <<>>
    ELSE <<k>> \o LoansHomeRows(d, k + 1)

\* mutation of LoansFriendsRows: a blank name is passed over
RECURSIVE LoansFriendsRowsPastBlank(_, _)
LoansFriendsRowsPastBlank(d, k) ==
    IF k >= len(d) THEN <<>>
    ELSE IF isna(iat(d, k, 10)) THEN LoansFriendsRowsPastBlank(d, k + 1)
    ELSE <<k>> \o LoansFriendsRowsPastBlank(d, k + 1)

\* rows of the friends-side loans scan: stop at a blank name only
RECURSIVE LoansFriendsRows(_, _)
LoansFriendsRows(d, k) ==
    IF k >= len(d) THEN <<>>
    ELSE IF isna(iat(d, k, 10)) THEN <<>>
    ELSE <<k>> \o LoansFriendsRows(d, k + 1)

(***************************************************************************)
(* The record appended for a row.                                          *)
(***************************************************************************)
\* mutation of CategoryRecord: a blank value cell is recorded as zero
CategoryRecordZero(d, i, label) ==
    [Category |-> label \o strip(str(iat(d, i, 0))),
     Planned  |-> IF isna(iat(d, i, 1)) THEN Num(0) ELSE iat(d, i, 1),
     Actual   |-> IF shape1(d) > 2 /\ iat(d, i, 2).t = "num" THEN iat(d, i, 2)
                  ELSE Num(0)]

\* the record of lines 66-78 (label "") and 89-100 (label "Bangalore - ")
CategoryRecord(d, i, label) ==
    LET name_str    == strip(str(iat(d, i, 0)))
        planned     == IF ~isna(iat(d, i, 1)) THEN iat(d, i, 1) ELSE None
        actual_cell == IF shape1(d) > 2 THEN iat(d, i, 2) ELSE None
        actual      == IF actual_cell # None /\ notna(actual_cell)
                          /\ ~isinstance_str(actual_cell)
                       THEN actual_cell ELSE None
    IN [Category |-> label \o name_str, Planned |-> planned, Actual |-> actual]

\* the amount of lines 123, 144 and 163: the cell right of the name, when there is one
AmountAt(d, k, c) ==
    IF shape1(d) > c /\ notna(iat(d, k, c)) THEN iat(d, k, c) ELSE None

FundRecord(d, k) ==
    [Fund |-> strip(str(iat(d, k, 7))), Amount |-> AmountAt(d, k, 8)]

LoanHomeRecord(d, k) ==
    [Loan |-> strip(str(iat(d, k, 10))), Outstanding |-> AmountAt(d, k, 11)]

LoanFriendRecord(d, k) ==
    [Friend |-> strip(str(iat(d, k, 10))), Outstanding |-> AmountAt(d, k, 11)]

(***************************************************************************)
(* parse_month_sheet(df): the header indices, the rows appended by each of *)
(* the five loops, the four lists, or raised when a df.iat is outside the  *)
(* frame.                                                                  *)
(***************************************************************************)
parse_month_sheet(d) ==
    LET col0_raises  == len(d) > 0 /\ IndexError(d, 0, 0)
        start_       == IF col0_raises THEN -1 ELSE find_row_index(d, 0, "home")
        home         == IF start_ = -1 THEN <<>>
                        ELSE CategoryRows(d, HomeStops, start_ + 1)
        home_raises  == home # <<>> /\ IndexError(d, home[1], 1)
        bang_        == IF col0_raises THEN -1 ELSE find_row_index(d, 0, "bangalore")
        bang         == IF bang_ = -1 THEN <<>>
                        ELSE CategoryRows(d, BangaloreStops, bang_ + 1)
        bang_raises  == bang # <<>> /\ IndexError(d, bang[1], 1)
        funds_       == IF shape1(d) > 7 THEN find_row_index(d, 7, "funds") ELSE -1
        fund         == IF funds_ = -1 THEN <<>> ELSE FundsRows(d, funds_ + 1)
        loans_       == IF shape1(d) > 10
                        THEN find_prefix_index(d, 10, "loans/interest") ELSE -1
        lhome        == IF loans_ = -1 THEN <<>> ELSE LoansHomeRows(d, loans_ + 1)
        friends_     == IF shape1(d) > 10
                        THEN find_prefix_index(d, 10, "friends side") ELSE -1
        lfriends     == IF friends_ = -1 THEN <<>>
                        ELSE LoansFriendsRows(d, friends_ + 1)
        raises       == col0_raises \/ home_raises \/ bang_raises
    IN IF raises
       THEN [raised |-> TRUE]
       ELSE [raised |-> FALSE,
             start |-> start_, bang_idx |-> bang_, funds_header_idx |-> funds_,
             loans_header_idx |-> loans_, friends_header_idx |-> friends_,
             appended |-> [home |-> home, bangalore |-> bang, funds |-> fund,
                           loans_home |-> lhome, loans_friends |-> lfriends],
             categories |->
                 [k \in 1..Len(home) |-> CategoryRecord(d, home[k], "")]
                 \o [k \in 1..Len(bang) |-> CategoryRecord(d, bang[k], "Bangalore - ")],
             funds |-> [k \in 1..Len(fund) |-> FundRecord(d, fund[k])],
             loans_home |-> [k \in 1..Len(lhome) |-> LoanHomeRecord(d, lhome[k])],
             loans_friends |->
                 [k \in 1..Len(lfriends) |-> LoanFriendRecord(d, lfriends[k])]]


(***************************************************************************)
(* load_workbook: the rows it appends for one sheet.                       *)
(***************************************************************************)
CatRow(month, cat) ==
    [Month |-> month, Category |-> cat.Category, Planned |-> cat.Planned,
     Actual |-> cat.Actual]

FundRow(month, f) == [Month |-> month, Fund |-> f.Fund, Amount |-> f.Amount]

LoanHomeRow(month, l) ==
    [Month |-> month, Loan |-> l.Loan, Outstanding |-> l.Outstanding]

LoanFriendRow(month, l) ==
    [Month |-> month, Friend |-> l.Friend, Outstanding |-> l.Outstanding]

\* mutation of Extend: the rows are put in front
ExtendFront(table, rows) == rows \o table

\* list.append of every row, in order
Extend(table, rows) == table \o rows

(***************************************************************************)
(* Bounds and the workbooks explored.                                      *)
(***************************************************************************)
MaxRows == 4

MaxSheets == 2

EmptyFrame == [h |-> 0, w |-> 0, cols |-> <<>>]

\* a frame of h rows and w columns; cols maps a column number to its cells,
\* every other cell is empty
Frame(h, w, cols) ==
    [h |-> h, w |-> w, cols |-> [c \in {x \in DOMAIN cols : x < w} |-> cols[c]]]

\* the left w columns of a frame
Truncate(d, w) == Frame(d.h, w, d.cols)

Kinds == <<"empty", "num", "text">>

\* a value cell of the given kind; the number names its row and column
ValueCell(kind, i, c) ==
    CASE kind = "empty" -> NaN
      [] kind = "num"   -> Num(100 * i + c)
      [] kind = "text"  -> Text("n/a")

ValueColumn(h, c, seed) ==
    [i \in 1..h |-> ValueCell(Kinds[((i + seed) % 3) + 1], i, c)]

\* heights of the frames of the families below
Heights == {MaxRows}

\* the sheet of the spec's three scenarios (sections 8)
ScenarioFrame ==
    Frame(6, 12,
          0 :> <<Text("Home"), Text("Rent"), Text("Food"), Text("Bangalore"),
                 Text("Power"), Text("Funds")>>
       @@ 1 :> <<NaN, Num(1000), Num(500), NaN, Num(200), NaN>>
       @@ 2 :> <<NaN, Num(1200), NaN, NaN, Num(250), NaN>>
       @@ 7 :> <<Text("Funds"), Text("Planned Payments"), Text("Emergency"),
                 Text("Salary"), Text("Car"), NaN>>
       @@ 8 :> <<NaN, Num(5000), Num(2000), Num(50000), Num(1000), NaN>>
       @@ 10 :> <<Text("Loans/Interest - Home Side"), Text("Mortgage"),
                  Text("Friends Side"), Text("Alex"), NaN, NaN>>
       @@ 11 :> <<NaN, Num(15000), NaN, Num(300), NaN, NaN>>)

\* the scenario sheet cut at every width
WidthFrame(w) == IF w = 0 THEN EmptyFrame ELSE Truncate(ScenarioFrame, w)

\* column 0 over a few names, columns 1 and 2 over every mix of empty, number
\* and text
CatValueNames == {NaN, Text("Home"), Text("Rent"), Text("Bangalore")}

CatValueFrame(h, w, names, s1, s2) ==
    Frame(h, w, 0 :> names @@ 1 :> ValueColumn(h, 1, s1) @@ 2 :> ValueColumn(h, 2, s2))

\* column 0 over a few names and one stop word
CatStopCells == {Text(" Funds"), Text("SALARY"), Text("Loans/Interest - Home Side"),
                 Text("Friends Side"), Text("loans/interest")}

CatStopNames(stop) == {NaN, Text("Home"), Text("Rent"), Text("Bangalore"), stop}

\* column 0 over headers in several spellings, names and a number
CatNames == {NaN, Text("Home"), Text("  HOME\t"), Text("home expenses"),
             Text("Rent"), Text("Bangalore"), Num(42)}

CatNameFrame(h, names) ==
    Frame(h, 3, 0 :> names @@ 1 :> ValueColumn(h, 1, 0) @@ 2 :> ValueColumn(h, 2, 1))

\* columns 7 and 8
FundExtraCells == {Text(" FUNDS "), Text("refunds"), Num(7)}

FundNames(extra) == {NaN, Text("Funds"), Text("Emergency"), Text("Planned Payments"),
                     Text(" salary"), extra}

FundFrame(h, names, s) ==
    Frame(h, 9, 7 :> names @@ 8 :> ValueColumn(h, 8, s))

\* columns 10 and 11
LoanExtraCells == {Text(" LOANS/INTEREST"), Text("my friends side"),
                   Text("\tfriends side"), Text("  "), Num(9)}

LoanNames(extra) == {NaN, Text("Loans/Interest - Home Side"),
                     Text("Friends Side (cash)"), Text("Mortgage"), extra}

LoanFrame(h, names, s) ==
    Frame(h, 12, 10 :> names @@ 11 :> ValueColumn(h, 11, s))

\* sheet names: the parser takes them as opaque strings
SheetNames == {"Jul-25", "Aug-25", "notes"}

\* frames of the many-sheet workbooks
BookFrames == {ScenarioFrame, Truncate(ScenarioFrame, 3), Truncate(ScenarioFrame, 1),
               EmptyFrame}

Sheet(n, g) == [name |-> n, grid |-> g]

\* a workbook of one sheet
OneSheet(g) == <<Sheet("Jul-25", g)>>

\* workbooks of one sheet, drawn from the families above
InitBook ==
    \/ \E w \in 0..12 : book = OneSheet(WidthFrame(w))
    \/ \E h \in Heights, w \in 1..3, s1 \in 0..2, s2 \in 0..2 :
          \E names \in [1..h -> CatValueNames] :
             book = OneSheet(CatValueFrame(h, w, names, s1, s2))
    \/ \E h \in Heights, stop \in CatStopCells :
          \E names \in [1..h -> CatStopNames(stop)] :
             book = OneSheet(CatNameFrame(h, names))
    \/ \E h \in Heights :
          \E names \in [1..h -> CatNames] :
             book = OneSheet(CatNameFrame(h, names))
    \/ \E h \in Heights, extra \in FundExtraCells, s \in 0..2 :
          \E names \in [1..h -> FundNames(extra)] :
             book = OneSheet(FundFrame(h, names, s))
    \/ \E h \in Heights, extra \in LoanExtraCells, s \in 0..2 :
          \E names \in [1..h -> LoanNames(extra)] :
             book = OneSheet(LoanFrame(h, names, s))

\* workbooks of up to MaxSheets sheets, drawn from BookFrames
InitBooks ==
    \E n \in 0..MaxSheets :
        book \in [1..n -> {Sheet(nm, g) : nm \in SheetNames, g \in BookFrames}]

(***************************************************************************)
(* main: dicts, the credentials and the inputs of a session.  A dict is a  *)
(* function from its keys; a DataFrame kept in st.session_state is held as *)
(* the marker NewRows, its rows not being read by the login gate.          *)
(***************************************************************************)
EmptyDict == [k \in {} |-> FALSE]

\* d.get(key, default)
get(d, key, default) == IF key \in DOMAIN d THEN d[key] ELSE default

\* d[key] = value
setitem(d, key, value) ==
    [k \in DOMAIN d \cup {key} |-> IF k = key THEN value ELSE d[k]]

\* d.setdefault(key, value)
setdefault(d, key, value) == IF key \in DOMAIN d THEN d ELSE setitem(d, key, value)

default_user == "admin"

default_pass == "password"

creds == IF "credentials" \in DOMAIN secrets THEN secrets["credentials"] ELSE EmptyDict

username_secret == get(creds, "username", default_user)

password_secret == get(creds, "password", default_pass)

\* mutation of CredentialsMatch: one matching field is enough
CredentialsMatchEither(u, p) == u = username_secret \/ p = password_secret

\* line 452: both fields equal the configured credentials
CredentialsMatch(u, p) == u = username_secret /\ p = password_secret

Pages == {"Dashboard", "Add Data", "Funds & Loans"}

SaveButtons == {"Preview & Save to Session", "Save Manual Data"}

NewRows == "rows"

\* bound on the script runs of a session
MaxRuns == 4

\* the secrets of a deployment: none, a [credentials] table with both keys,
\* and one with the username only
SecretsFiles ==
    {EmptyDict,
     [credentials |-> [username |-> "owner", password |-> "s3cret"]],
     [credentials |-> [username |-> "owner"]]}

\* what a user may have typed in the two text inputs
TypedUsernames == {"", "admin", "owner"}

TypedPasswords == {"", "password", "s3cret"}

\* the workbooks behind default_file: one that loads, one whose parse raises
MainBooks == {OneSheet(ScenarioFrame), OneSheet(Truncate(ScenarioFrame, 1))}

\* a new session: empty session_state, widgets at their defaults, the
\* script about to run for the first time
NewSession ==
    /\ session_state = EmptyDict
    /\ username_input = ""
    /\ password_input = ""
    /\ pressed = ""
    /\ page = "Dashboard"
    /\ runs = 1
    /\ cached = FALSE

\* load_workbook called on its own, outside the script
NoSession ==
    /\ secrets = EmptyDict
    /\ NewSession
    /\ at = "none"

(***************************************************************************)
(* The state machine.                                                      *)
(***************************************************************************)
\* load_workbook is entered: lines 187-191
LoadState(p) ==
    /\ pos = 0
    /\ pc = p
    /\ sheet_name = ""
    /\ df = EmptyFrame
    /\ start = -1
    /\ bang_idx = -1
    /\ funds_header_idx = -1
    /\ loans_header_idx = -1
    /\ friends_header_idx = -1
    /\ appended = [home |-> <<>>, bangalore |-> <<>>, funds |-> <<>>,
                   loans_home |-> <<>>, loans_friends |-> <<>>]
    /\ categories = <<>>
    /\ funds = <<>>
    /\ loans_home = <<>>
    /\ loans_friends = <<>>
    /\ cat_rows = <<>>
    /\ funds_rows = <<>>
    /\ loans_home_rows = <<>>
    /\ loans_friends_rows = <<>>

InitLoad == LoadState("read")

\* lines 192-193: the next sheet of xls.sheet_names is read with header=None
ReadExcel ==
    /\ pc = "read"
    /\ pos < Len(book)
    /\ sheet_name' = book[pos + 1].name
    /\ df' = book[pos + 1].grid
    /\ pos' = pos + 1
    /\ pc' = "parse"
    /\ UNCHANGED <<book, locals, tables, script>>

\* line 194: parse_month_sheet(df) returns its four lists, or raises
ParseMonthSheet ==
    /\ pc = "parse"
    /\ \E r \in {parse_month_sheet(df)} :
          IF r.raised
          THEN /\ pc' = "raised"
               /\ UNCHANGED locals
          ELSE /\ pc' = "append"
               /\ start' = r.start
               /\ bang_idx' = r.bang_idx
               /\ funds_header_idx' = r.funds_header_idx
               /\ loans_header_idx' = r.loans_header_idx
               /\ friends_header_idx' = r.friends_header_idx
               /\ appended' = r.appended
               /\ categories' = r.categories
               /\ funds' = r.funds
               /\ loans_home' = r.loans_home
               /\ loans_friends' = r.loans_friends
    /\ UNCHANGED <<book, pos, sheet_name, df, tables, script>>

\* lines 195-219: every record is tagged with the sheet name and appended
AppendRows ==
    /\ pc = "append"
    /\ cat_rows' = Extend(cat_rows,
           [k \in 1..Len(categories) |-> CatRow(sheet_name, categories[k])])
    /\ funds_rows' = Extend(funds_rows,
           [k \in 1..Len(funds) |-> FundRow(sheet_name, funds[k])])
    /\ loans_home_rows' = Extend(loans_home_rows,
           [k \in 1..Len(loans_home) |-> LoanHomeRow(sheet_name, loans_home[k])])
    /\ loans_friends_rows' = Extend(loans_friends_rows,
           [k \in 1..Len(loans_friends) |->
               LoanFriendRow(sheet_name, loans_friends[k])])
    /\ pc' = "read"
    /\ UNCHANGED <<book, pos, sheet_name, df, locals, script>>

\* lines 220-224: after the last sheet the four tables are returned
ReturnTables ==
    /\ pc = "read"
    /\ pos = Len(book)
    /\ pc' = "done"
    /\ UNCHANGED <<book, pos, sheet_name, df, locals, tables, script>>

Next == ReadExcel \/ ParseMonthSheet \/ AppendRows \/ ReturnTables

\* one-sheet workbooks: the parser over the families of frames
Init == InitBook /\ InitLoad /\ NoSession

Spec == Init /\ [][Next]_vars

\* many-sheet workbooks: the aggregation
InitWorkbook == InitBooks /\ InitLoad /\ NoSession

SpecWorkbook == InitWorkbook /\ [][Next]_vars

(***************************************************************************)
(* main, one script run after another.                                     *)
(***************************************************************************)
\* lines 433-469: the flag is created False when absent; while it is False
\* the login form is drawn, a press of 'Login' with matching fields sets the
\* flag, and st.stop() ends the run if the flag is still False
Authenticate ==
    /\ at = "run"
    /\ \E s0 \in {setdefault(session_state, "logged_in", FALSE)} :
       \E s1 \in {IF /\ ~s0["logged_in"]
                      /\ pressed = "Login"
                      /\ CredentialsMatch(username_input, password_input)
                   THEN setitem(s0, "logged_in", TRUE)
                   ELSE s0} :
          /\ session_state' = s1
          /\ at' = IF s1["logged_in"] THEN "load" ELSE "stopped"
    /\ UNCHANGED <<book, pos, pc, sheet_name, df, locals, tables, secrets,
                   username_input, password_input, pressed, page, runs, cached>>

\* lines 170 and 476: the call is answered from the cache once load_workbook
\* has returned for default_file, and enters load_workbook otherwise
CallLoadWorkbook ==
    /\ at = "load"
    /\ IF cached
       THEN /\ at' = "page"
            /\ UNCHANGED <<pos, pc, sheet_name, df, locals, tables>>
       ELSE /\ at' = "loading"
            /\ pos' = 0
            /\ pc' = "read"
            /\ sheet_name' = ""
            /\ df' = EmptyFrame
            /\ start' = -1
            /\ bang_idx' = -1
            /\ funds_header_idx' = -1
            /\ loans_header_idx' = -1
            /\ friends_header_idx' = -1
            /\ appended' = [home |-> <<>>, bangalore |-> <<>>, funds |-> <<>>,
                            loans_home |-> <<>>, loans_friends |-> <<>>]
            /\ categories' = <<>>
            /\ funds' = <<>>
            /\ loans_home' = <<>>
            /\ loans_friends' = <<>>
            /\ cat_rows' = <<>>
            /\ funds_rows' = <<>>
            /\ loans_home_rows' = <<>>
            /\ loans_friends_rows' = <<>>
    /\ UNCHANGED <<book, secrets, session_state, username_input, password_input,
                   pressed, page, runs, cached>>

\* lines 170 and 476: load_workbook returns its four tables, which are cached
LoadReturns ==
    /\ at = "loading"
    /\ pc = "done"
    /\ cached' = TRUE
    /\ at' = "page"
    /\ UNCHANGED <<book, pos, pc, sheet_name, df, locals, tables, secrets,
                   session_state, username_input, password_input, pressed, page,
                   runs>>

\* lines 477-479: load_workbook raised; the error is shown and main returns
LoadRaises ==
    /\ at = "loading"
    /\ pc = "raised"
    /\ at' = "failed"
    /\ UNCHANGED <<book, pos, pc, sheet_name, df, locals, tables, secrets,
                   session_state, username_input, password_input, pressed, page,
                   runs, cached>>

\* lines 481-509: the page of the sidebar is shown; on 'Add Data' a pressed
\* save button appends to the new_* entries of st.session_state (lines
\* 330-341 and 358-371), the manual one only when its rows are valid
ShowPage ==
    /\ at = "page"
    /\ \E valid \in BOOLEAN :
          session_state' =
              IF page = "Add Data" /\ pressed = "Preview & Save to Session"
              THEN setitem(setitem(setitem(setitem(session_state,
                       "new_cat_data", NewRows), "new_funds_data", NewRows),
                       "new_loans_home", NewRows), "new_loans_friends", NewRows)
              ELSE IF page = "Add Data" /\ pressed = "Save Manual Data" /\ valid
              THEN setitem(session_state, "new_cat_data", NewRows)
              ELSE session_state
    /\ at' = "shown"
    /\ UNCHANGED <<book, pos, pc, sheet_name, df, locals, tables, secrets,
                   username_input, password_input, pressed, page, runs, cached>>

\* the run is over and its widgets are on the screen
RunOver == at \in {"stopped", "failed", "shown"}

\* lines 447-451: the user edits the login form, with or without a press of
\* 'Login', and the script runs again
SubmitLogin ==
    /\ at = "stopped"
    /\ runs < MaxRuns
    /\ \E u \in TypedUsernames, p \in TypedPasswords, b \in {"", "Login"} :
          /\ username_input' = u
          /\ password_input' = p
          /\ pressed' = b
    /\ at' = "run"
    /\ runs' = runs + 1
    /\ UNCHANGED <<book, pos, pc, sheet_name, df, locals, tables, secrets,
                   session_state, page, cached>>

\* lines 498-502: the user picks a page in the sidebar
Navigate ==
    /\ at = "shown"
    /\ runs < MaxRuns
    /\ \E pg \in Pages : page' = pg
    /\ pressed' = ""
    /\ at' = "run"
    /\ runs' = runs + 1
    /\ UNCHANGED <<book, pos, pc, sheet_name, df, locals, tables, secrets,
                   session_state, username_input, password_input, cached>>

\* lines 330 and 358: the user presses a save button of the 'Add Data' page
PressSave ==
    /\ at = "shown"
    /\ page = "Add Data"
    /\ runs < MaxRuns
    /\ \E b \in SaveButtons : pressed' = b
    /\ at' = "run"
    /\ runs' = runs + 1
    /\ UNCHANGED <<book, pos, pc, sheet_name, df, locals, tables, secrets,
                   session_state, username_input, password_input, page, cached>>

\* lines 512-513: the script is run again with no widget changed
Rerun ==
    /\ RunOver
    /\ runs < MaxRuns
    /\ pressed' = ""
    /\ at' = "run"
    /\ runs' = runs + 1
    /\ UNCHANGED <<book, pos, pc, sheet_name, df, locals, tables, secrets,
                   session_state, username_input, password_input, page, cached>>

NextMain ==
    \/ Authenticate
    \/ CallLoadWorkbook
    \/ ReadExcel
    \/ ParseMonthSheet
    \/ AppendRows
    \/ ReturnTables
    \/ LoadReturns
    \/ LoadRaises
    \/ ShowPage
    \/ SubmitLogin
    \/ Navigate
    \/ PressSave
    \/ Rerun

\* a session opens: the script starts its first run
InitMain ==
    /\ book \in MainBooks
    /\ LoadState("idle")
    /\ secrets \in SecretsFiles
    /\ NewSession
    /\ at = "run"

SpecMain == InitMain /\ [][NextMain]_vars


(***************************************************************************)
(* Vocabulary of the properties.  Headers, terminators and trimmed names   *)
(* are described here by position in the text of a cell, not by the        *)
(* parser's own strip/lower pipeline.                                      *)
(***************************************************************************)
\* parse_month_sheet has returned for df and load_workbook has not moved on
Parsed == pc = "append"

AllSpaces(s) == \A k \in 1..Len(s) : IsSpace(CharAt(s, k))

\* s spells the (lower-case) keyword, in any case
Spells(s, keyword) ==
    /\ Len(s) = Len(keyword)
    /\ \A k \in 1..Len(s) : LowerChar(CharAt(s, k)) = CharAt(keyword, k)

\* the text is the keyword in any case, with any whitespace around it
IsKeyword(s, keyword) ==
    \E a \in 0..(Len(s) - Len(keyword)) :
        /\ AllSpaces(SubSeq(s, 1, a))
        /\ Spells(SubSeq(s, a + 1, a + Len(keyword)), keyword)
        /\ AllSpaces(SubSeq(s, a + Len(keyword) + 1, Len(s)))

\* the text is whitespace, then the keyword in any case, then anything
BeginsWithKeyword(s, keyword) ==
    \E a \in 0..(Len(s) - Len(keyword)) :
        /\ AllSpaces(SubSeq(s, 1, a))
        /\ Spells(SubSeq(s, a + 1, a + Len(keyword)), keyword)

\* the text of a name cell
NameText(cell) == IF cell.t = "num" THEN ToString(cell.n) ELSE cell.s

\* the text without the whitespace at its two ends
Trimmed(s) ==
    LET solid == {k \in 1..Len(s) : ~IsSpace(CharAt(s, k))}
    IN IF solid = {} THEN ""
       ELSE SubSeq(s, CHOOSE k \in solid : \A j \in solid : k <= j,
                      CHOOSE k \in solid : \A j \in solid : j <= k)

Least(S) == CHOOSE i \in S : \A j \in S : i <= j

\* the rows of column col holding a header cell
HeaderCells(col, keyword) ==
    {i \in 0..(df.h - 1) : /\ col < df.w
                           /\ iat(df, i, col).t = "text"
                           /\ IsKeyword(iat(df, i, col).s, keyword)}

PrefixHeaderCells(col, keyword) ==
    {i \in 0..(df.h - 1) : /\ col < df.w
                           /\ iat(df, i, col).t = "text"
                           /\ BeginsWithKeyword(iat(df, i, col).s, keyword)}

\* the first of a set of rows, -1 when there is none
FirstOrNone(S) == IF S = {} THEN -1 ELSE Least(S)

\* the name cell of row i of column col is a word of the set
NameIn(col, i, words) ==
    /\ iat(df, i, col).t # "empty"
    /\ \E kw \in words : IsKeyword(NameText(iat(df, i, col)), kw)

NameBegins(col, i, keyword) ==
    /\ iat(df, i, col).t # "empty"
    /\ BeginsWithKeyword(NameText(iat(df, i, col)), keyword)

\* the first row below hdr with a blank name cell, df.h when there is none
FirstBlank(col, hdr) ==
    Least({i \in (hdr + 1)..(df.h - 1) : iat(df, i, col).t = "empty"} \cup {df.h})

\* the terminator of a scan below hdr: the first blank or stop-word row
Terminator(col, hdr, words) ==
    Least({i \in (hdr + 1)..(df.h - 1) :
               iat(df, i, col).t = "empty" \/ NameIn(col, i, words)} \cup {df.h})

LoansHomeTerminator(hdr) ==
    Least({i \in (hdr + 1)..(df.h - 1) :
               iat(df, i, 10).t = "empty" \/ NameBegins(10, i, "friends side")}
          \cup {df.h})

\* the rows a..b-1 in order
Rows(a, b) == [k \in 1..(b - a) |-> a + k - 1]

\* the rows below hdr up to the terminator; none when there is no header
Below(hdr, term) == IF hdr = -1 THEN <<>> ELSE Rows(hdr + 1, term)

\* the rows of the sequence that are not reserved funds rows, in order
RECURSIVE Unreserved(_)
Unreserved(rows) ==
    IF rows = <<>> THEN <<>>
    ELSE IF NameIn(7, Head(rows), FundsSkips) THEN Unreserved(Tail(rows))
    ELSE <<Head(rows)>> \o Unreserved(Tail(rows))

(***************************************************************************)
(* The records expected of a row.                                          *)
(***************************************************************************)
\* the value cell beside a name, None when it is blank or outside the frame
ValueOrNone(i, c) ==
    IF c < df.w /\ iat(df, i, c).t # "empty" THEN iat(df, i, c) ELSE None

\* rec is the category record of row i: the trimmed name behind the label, a
\* numeric cell of columns 1 and 2 taken as it is, a blank one as None
CategoryOf(rec, i, label) ==
    /\ rec.Category = label \o Trimmed(NameText(iat(df, i, 0)))
    /\ iat(df, i, 1).t = "num" => rec.Planned = iat(df, i, 1)
    /\ iat(df, i, 1).t = "empty" => rec.Planned = None
    /\ (2 < df.w /\ iat(df, i, 2).t = "num") => rec.Actual = iat(df, i, 2)
    /\ (2 >= df.w \/ iat(df, i, 2).t = "empty") => rec.Actual = None

\* df holds the scenario sheet's columns lo..hi
HoldsScenario(lo, hi) ==
    /\ df.h = ScenarioFrame.h
    /\ df.w > hi
    /\ \A c \in lo..hi : \A i \in 0..(df.h - 1) : iat(df, i, c) = iat(ScenarioFrame, i, c)

(***************************************************************************)
(* C1 (as claimed): a text value cell is recorded as None in Planned,      *)
(* Actual, Amount and Outstanding, and the record keeps the trimmed name.  *)
(***************************************************************************)
TextGivesNone(i, c, field) ==
    (c < df.w /\ iat(df, i, c).t = "text") => field = None

\* C1: in every record of every section a text value cell gives None and the
\* name field is the trimmed name cell
C1_TextValueIsAbsent ==
    Parsed =>
        /\ \A k \in 1..Len(appended.home) :
               /\ TextGivesNone(appended.home[k], 1, categories[k].Planned)
               /\ TextGivesNone(appended.home[k], 2, categories[k].Actual)
               /\ categories[k].Category =
                      Trimmed(NameText(iat(df, appended.home[k], 0)))
        /\ \A k \in 1..Len(appended.bangalore) :
               /\ TextGivesNone(appended.bangalore[k], 1,
                                categories[Len(appended.home) + k].Planned)
               /\ TextGivesNone(appended.bangalore[k], 2,
                                categories[Len(appended.home) + k].Actual)
        /\ \A k \in 1..Len(appended.funds) :
               /\ TextGivesNone(appended.funds[k], 8, funds[k].Amount)
               /\ funds[k].Fund = Trimmed(NameText(iat(df, appended.funds[k], 7)))
        /\ \A k \in 1..Len(appended.loans_home) :
               /\ TextGivesNone(appended.loans_home[k], 11, loans_home[k].Outstanding)
               /\ loans_home[k].Loan =
                      Trimmed(NameText(iat(df, appended.loans_home[k], 10)))
        /\ \A k \in 1..Len(appended.loans_friends) :
               /\ TextGivesNone(appended.loans_friends[k], 11,
                                loans_friends[k].Outstanding)
               /\ loans_friends[k].Friend =
                      Trimmed(NameText(iat(df, appended.loans_friends[k], 10)))

(***************************************************************************)
(* C2 (as claimed): parse_month_sheet never raises, and a section whose    *)
(* column band is not wholly inside the frame appends no record.           *)
(***************************************************************************)
C2_NarrowFrameNoRaiseNoRecords ==
    /\ pc # "raised"
    /\ Parsed =>
        /\ df.w < 3 => categories = <<>>
        /\ df.w < 9 => funds = <<>>
        /\ df.w < 12 => (loans_home = <<>> /\ loans_friends = <<>>)

(***************************************************************************)
(* C3: every scan appends exactly the rows from below its header up to the *)
(* first row whose name cell is empty or a stop word of the section (the   *)
(* funds scan leaving out its reserved rows), so no primary record is      *)
(* named by a word of HomeStops, no 'Bangalore - ' record by a word of     *)
(* BangaloreStops, and no home-loan name begins with 'friends side'.       *)
(***************************************************************************)
BangalorePrefix == "Bangalore - "

C3_ScanStopsAtTerminator ==
    Parsed =>
        /\ appended.home = Below(start, Terminator(0, start, HomeStops))
        /\ appended.bangalore = Below(bang_idx, Terminator(0, bang_idx, BangaloreStops))
        /\ appended.funds =
               Unreserved(Below(funds_header_idx, FirstBlank(7, funds_header_idx)))
        /\ appended.loans_home =
               Below(loans_header_idx, LoansHomeTerminator(loans_header_idx))
        /\ appended.loans_friends =
               Below(friends_header_idx, FirstBlank(10, friends_header_idx))
        /\ Len(categories) = Len(appended.home) + Len(appended.bangalore)
        /\ \A k \in 1..Len(appended.home) :
               \A kw \in HomeStops : ~IsKeyword(categories[k].Category, kw)
        /\ \A k \in (Len(appended.home) + 1)..Len(categories) :
               /\ SubSeq(categories[k].Category, 1, Len(BangalorePrefix)) = BangalorePrefix
               /\ \A kw \in BangaloreStops :
                      ~IsKeyword(SubSeq(categories[k].Category, Len(BangalorePrefix) + 1,
                                        Len(categories[k].Category)), kw)
        /\ \A k \in 1..Len(loans_home) :
               ~BeginsWithKeyword(loans_home[k].Loan, "friends side")

\* a 'Bangalore' header right below the last primary row, with no blank
\* row between, ends the primary scan and opens the next section
C3_Witness ==
    /\ Parsed
    /\ start >= 0
    /\ bang_idx = start + 2
    /\ appended.home = <<start + 1>>
    /\ appended.bangalore # <<>>
    /\ Len(categories) = 1 + Len(appended.bangalore)

(***************************************************************************)
(* C4: in each of the five scans no row at or below the first blank name   *)
(* cell under the header appends a record, whatever follows the blank.     *)
(***************************************************************************)
NoneFrom(rows, b) == \A k \in 1..Len(rows) : rows[k] < b

\* C4: no scan appends a row at or below the first blank name under its header
C4_BlankNameEndsScan ==
    Parsed =>
        /\ NoneFrom(appended.home, FirstBlank(0, start))
        /\ NoneFrom(appended.bangalore, FirstBlank(0, bang_idx))
        /\ NoneFrom(appended.funds, FirstBlank(7, funds_header_idx))
        /\ NoneFrom(appended.loans_home, FirstBlank(10, loans_header_idx))
        /\ NoneFrom(appended.loans_friends, FirstBlank(10, friends_header_idx))
        /\ Len(categories) = Len(appended.home) + Len(appended.bangalore)
        /\ Len(funds) = Len(appended.funds)
        /\ Len(loans_home) = Len(appended.loans_home)
        /\ Len(loans_friends) = Len(appended.loans_friends)

\* a friends-side row, then a blank name, then a named row that is left out
C4_Witness ==
    /\ Parsed
    /\ friends_header_idx >= 0
    /\ friends_header_idx + 3 < df.h
    /\ iat(df, friends_header_idx + 1, 10).t # "empty"
    /\ iat(df, friends_header_idx + 2, 10).t = "empty"
    /\ iat(df, friends_header_idx + 3, 10).t # "empty"
    /\ appended.loans_friends = <<friends_header_idx + 1>>
    /\ Len(loans_friends) = 1


(***************************************************************************)
(* C5: the funds are the rows below the first 'funds' cell of column 7 up  *)
(* to the first blank name, in row order, without the rows named 'planned  *)
(* payments' or 'salary', which do not end the scan; the scenario sheet    *)
(* gives Emergency 2000 and Car 1000.                                      *)
(***************************************************************************)
C5_FundsSkipReservedRows ==
    Parsed =>
        \E hdr \in {FirstOrNone(HeaderCells(7, "funds"))} :
        \E rows \in {Unreserved(Below(hdr, FirstBlank(7, hdr)))} :
            /\ funds = [k \in 1..Len(rows) |->
                           [Fund   |-> Trimmed(NameText(iat(df, rows[k], 7))),
                            Amount |-> ValueOrNone(rows[k], 8)]]
            /\ HoldsScenario(7, 8) =>
                   funds = <<[Fund |-> "Emergency", Amount |-> Num(2000)],
                             [Fund |-> "Car", Amount |-> Num(1000)]>>

\* the scenario sheet: rows 1 and 3 are passed over, rows 2 and 4 appended
C5_Witness ==
    /\ Parsed
    /\ HoldsScenario(7, 8)
    /\ appended.funds = <<2, 4>>
    /\ funds = <<[Fund |-> "Emergency", Amount |-> Num(2000)],
                 [Fund |-> "Car", Amount |-> Num(1000)]>>

(***************************************************************************)
(* C6: each of the four tables is, at every moment, the concatenation in   *)
(* sheet order of the records parse_month_sheet gives for each sheet       *)
(* handled so far, in parse order and tagged with that sheet's name as     *)
(* Month; so rows once appended never change and none is dropped or moved. *)
(***************************************************************************)
\* the records of one parse, each with the sheet's name as Month
Tagged(name, recs) == [k \in 1..Len(recs) |-> [Month |-> name] @@ recs[k]]

\* the four tables after the first n sheets
RECURSIVE TablesAfter(_)
TablesAfter(n) ==
    IF n = 0 THEN <<<<>>, <<>>, <<>>, <<>>>>
    ELSE CHOOSE t \in {<<prev[1] \o Tagged(book[n].name, r.categories),
                         prev[2] \o Tagged(book[n].name, r.funds),
                         prev[3] \o Tagged(book[n].name, r.loans_home),
                         prev[4] \o Tagged(book[n].name, r.loans_friends)>> :
                           prev \in {TablesAfter(n - 1)},
                           r \in {parse_month_sheet(book[n].grid)}} : TRUE

\* the sheets whose records have been appended
Handled == IF pc \in {"read", "done"} THEN pos ELSE pos - 1

\* C6: the tables are the tagged parses of the sheets handled, in sheet order
C6_TablesConcatenateInSheetOrder ==
    /\ tables = TablesAfter(Handled)
    /\ pc = "done" => Handled = Len(book)

\* two sheets of different names, both with categories, funds and loans
\* (checked under SpecWorkbook)
C6_Witness ==
    /\ pc = "done"
    /\ Len(book) = 2
    /\ book[1].name # book[2].name
    /\ Len(cat_rows) = 6
    /\ cat_rows[3].Month = book[1].name
    /\ cat_rows[4].Month = book[2].name
    /\ Len(funds_rows) >= 2
    /\ funds_rows[1].Month = book[1].name
    /\ funds_rows[Len(funds_rows)].Month = book[2].name
    /\ Len(loans_home_rows) = 2
    /\ Len(loans_friends_rows) = 2

(***************************************************************************)
(* C7: categories is one record per row below the first 'home' cell up to  *)
(* its terminator, then one per row below the first 'bangalore' cell up to *)
(* its terminator with the name behind 'Bangalore - ', in row order;       *)
(* Planned is column 1 and Actual column 2, a blank cell giving None; the  *)
(* scenario sheet gives Rent, Food and Bangalore - Power.                  *)
(***************************************************************************)
C7_CategoriesPrimaryThenSecondary ==
    Parsed =>
        \E home \in {FirstOrNone(HeaderCells(0, "home"))} :
        \E bang \in {FirstOrNone(HeaderCells(0, "bangalore"))} :
        \E prim \in {Below(home, Terminator(0, home, HomeStops))} :
        \E sec \in {Below(bang, Terminator(0, bang, BangaloreStops))} :
            /\ Len(categories) = Len(prim) + Len(sec)
            /\ \A k \in 1..Len(prim) : CategoryOf(categories[k], prim[k], "")
            /\ \A k \in 1..Len(sec) :
                   CategoryOf(categories[Len(prim) + k], sec[k], "Bangalore - ")
            /\ HoldsScenario(0, 2) =>
                   categories =
                       <<[Category |-> "Rent", Planned |-> Num(1000),
                          Actual |-> Num(1200)],
                         [Category |-> "Food", Planned |-> Num(500), Actual |-> None],
                         [Category |-> "Bangalore - Power", Planned |-> Num(200),
                          Actual |-> Num(250)]>>

\* the scenario sheet
C7_Witness ==
    /\ Parsed
    /\ HoldsScenario(0, 2)
    /\ appended.home = <<1, 2>>
    /\ appended.bangalore = <<4>>
    /\ Len(categories) = 3
    /\ categories[2] = [Category |-> "Food", Planned |-> Num(500), Actual |-> None]

(***************************************************************************)
(* C8: when column 10 holds a 'loans/interest...' cell above a 'friends    *)
(* side...' cell, loans_home is the rows between the first 'loans/         *)
(* interest...' cell and the first blank or 'friends side...' name below   *)
(* it, loans_friends the rows below the first 'friends side...' cell up to *)
(* the first blank name, each with Outstanding from column 11; the         *)
(* scenario sheet gives Mortgage 15000 and Alex 300.                       *)
(***************************************************************************)
LoansAboveFriends ==
    \E i \in PrefixHeaderCells(10, "loans/interest") :
        \E j \in PrefixHeaderCells(10, "friends side") : i < j

\* C8: the two loans lists are the rows below their headers up to their
\* terminators, with Outstanding from column 11
C8_LoansHomeThenFriends ==
    (Parsed /\ LoansAboveFriends) =>
        \E lh \in {Least(PrefixHeaderCells(10, "loans/interest"))} :
        \E fh \in {Least(PrefixHeaderCells(10, "friends side"))} :
        \E hrows \in {Rows(lh + 1, LoansHomeTerminator(lh))} :
        \E frows \in {Rows(fh + 1, FirstBlank(10, fh))} :
            /\ loans_home = [k \in 1..Len(hrows) |->
                   [Loan        |-> Trimmed(NameText(iat(df, hrows[k], 10))),
                    Outstanding |-> ValueOrNone(hrows[k], 11)]]
            /\ loans_friends = [k \in 1..Len(frows) |->
                   [Friend      |-> Trimmed(NameText(iat(df, frows[k], 10))),
                    Outstanding |-> ValueOrNone(frows[k], 11)]]
            /\ HoldsScenario(10, 11) =>
                   /\ loans_home = <<[Loan |-> "Mortgage", Outstanding |-> Num(15000)]>>
                   /\ loans_friends = <<[Friend |-> "Alex", Outstanding |-> Num(300)]>>

\* the scenario sheet
C8_Witness ==
    /\ Parsed
    /\ HoldsScenario(10, 11)
    /\ LoansAboveFriends
    /\ loans_home = <<[Loan |-> "Mortgage", Outstanding |-> Num(15000)]>>
    /\ loans_friends = <<[Friend |-> "Alex", Outstanding |-> Num(300)]>>


(***************************************************************************)
(* C9: each of the five header indices is the first cell of its column     *)
(* whose text is the keyword in any case with any whitespace around it     *)
(* ('home', 'bangalore' in column 0, 'funds' in column 7) or, in column 10,*)
(* begins with 'loans/interest' or 'friends side'; a text that only        *)
(* extends a keyword is no header and later matches are not used.          *)
(***************************************************************************)
C9_HeaderIsFirstMatch ==
    Parsed =>
        /\ start = FirstOrNone(HeaderCells(0, "home"))
        /\ bang_idx = FirstOrNone(HeaderCells(0, "bangalore"))
        /\ funds_header_idx = FirstOrNone(HeaderCells(7, "funds"))
        /\ loans_header_idx = FirstOrNone(PrefixHeaderCells(10, "loans/interest"))
        /\ friends_header_idx = FirstOrNone(PrefixHeaderCells(10, "friends side"))

\* 'home expenses' above '  HOME<tab>' above 'Home': the header is the second
C9_Witness ==
    /\ Parsed
    /\ df.h >= 3
    /\ iat(df, 0, 0) = Text("home expenses")
    /\ iat(df, 1, 0) = Text("  HOME\t")
    /\ \E i \in 2..(df.h - 1) : iat(df, i, 0) = Text("Home")
    /\ start = 1

(***************************************************************************)
(* C10: a sheet with no header cell at all parses to four empty lists and  *)
(* does not raise; a section whose header is absent appends no record.     *)
(***************************************************************************)
NoHeaders ==
    /\ HeaderCells(0, "home") = {}
    /\ HeaderCells(0, "bangalore") = {}
    /\ HeaderCells(7, "funds") = {}
    /\ PrefixHeaderCells(10, "loans/interest") = {}
    /\ PrefixHeaderCells(10, "friends side") = {}

\* C10: no header, no record and no raise; an absent header, no record of
\* that section
C10_AbsentHeaderNoRecords ==
    /\ (pc = "raised" => ~NoHeaders)
    /\ Parsed =>
        /\ NoHeaders => /\ categories = <<>>
                        /\ funds = <<>>
                        /\ loans_home = <<>>
                        /\ loans_friends = <<>>
        /\ HeaderCells(0, "home") = {} => appended.home = <<>>
        /\ HeaderCells(0, "bangalore") = {} => appended.bangalore = <<>>
        /\ Len(categories) = Len(appended.home) + Len(appended.bangalore)
        /\ HeaderCells(7, "funds") = {} => funds = <<>>
        /\ PrefixHeaderCells(10, "loans/interest") = {} => loans_home = <<>>
        /\ PrefixHeaderCells(10, "friends side") = {} => loans_friends = <<>>

\* no header anywhere, yet names in column 0 with values beside them
C10_Witness ==
    /\ Parsed
    /\ NoHeaders
    /\ df.h >= 2
    /\ df.w >= 3
    /\ \A i \in 0..(df.h - 1) : iat(df, i, 0).t # "empty"
    /\ \E i \in 0..(df.h - 1) : iat(df, i, 1).t = "num"
    /\ categories = <<>>

(***************************************************************************)
(* C11: a row of column 0 gives at most one category record and a row of   *)
(* column 10 at most one loan record.  The stop-set of the 'Bangalore'     *)
(* scan has no 'home' and the friend-loan scan stops at a blank cell only, *)
(* so a section whose header lies above the header of the section the      *)
(* sheet layout puts before it runs through that header and over its rows. *)
(***************************************************************************)
\* the rows of a sequence of row indices
RowSet(rows) == {rows[k] : k \in 1..Len(rows)}

\* no row of column 0 is appended by both category scans
CategoryScansApart == RowSet(appended.home) \cap RowSet(appended.bangalore) = {}

\* no row of column 10 is appended by both loan scans
LoanScansApart == RowSet(appended.loans_home) \cap RowSet(appended.loans_friends) = {}

\* both headers are in the column and the first cell of the second keyword
\* lies above the first cell of the first
Inverted(first, second) == second # -1 /\ first # -1 /\ second < first

\* C11 (as claimed): whatever the order of the headers, no row of column 0
\* gives both a primary and a 'Bangalore - ' record and no row of column 10
\* both a home-loan and a friend-loan record
C11_RowEmittedOncePerColumn ==
    Parsed => (CategoryScansApart /\ LoanScansApart)

\* C11 (amended): the same, for a column 0 whose first 'bangalore' header is
\* not above its first 'home' header and for a column 10 whose first
\* 'friends side' header is not above its first 'loans/interest' header
C11_RowEmittedOnceInLayoutOrder ==
    Parsed =>
        /\ ~Inverted(FirstOrNone(HeaderCells(0, "home")),
                     FirstOrNone(HeaderCells(0, "bangalore")))
               => CategoryScansApart
        /\ ~Inverted(FirstOrNone(PrefixHeaderCells(10, "loans/interest")),
                     FirstOrNone(PrefixHeaderCells(10, "friends side")))
               => LoanScansApart

\* both category sections in layout order, each with a record, the
\* 'Bangalore' header right below the last primary row
C11_Witness ==
    /\ Parsed
    /\ FirstOrNone(HeaderCells(0, "home")) >= 0
    /\ FirstOrNone(HeaderCells(0, "bangalore")) > FirstOrNone(HeaderCells(0, "home"))
    /\ appended.home # <<>>
    /\ appended.bangalore # <<>>
    /\ appended.bangalore[1] = appended.home[Len(appended.home)] + 2
    /\ Len(categories) = Len(appended.home) + Len(appended.bangalore)

(***************************************************************************)
(* C12: the login gate.  The configured credentials are those of the       *)
(* [credentials] table of the secrets, each key falling back to its        *)
(* default when the table or the key is missing.                           *)
(***************************************************************************)
LoggedIn ==
    /\ "logged_in" \in DOMAIN session_state
    /\ session_state["logged_in"] = TRUE

Configured(key, fallback) ==
    IF \E f \in SecretsFiles : /\ f = secrets
                               /\ "credentials" \in DOMAIN f
                               /\ key \in DOMAIN f.credentials
    THEN secrets.credentials[key]
    ELSE fallback

\* the run has reached the call of load_workbook or come past it
PastGate == at \in {"load", "loading", "page", "shown", "failed"}

\* C12: the workbook is loaded and a page is shown only while logged_in is
\* True; logged_in becomes True only in a run started by a press of 'Login'
\* with both fields equal to the configured credentials; once True it stays
\* True
C12_LoginGate ==
    /\ [](PastGate => LoggedIn)
    /\ [](pc \in {"read", "parse", "append"} => LoggedIn)
    /\ [][/\ (~LoggedIn /\ LoggedIn') =>
                 /\ pressed = "Login"
                 /\ username_input = Configured("username", "admin")
                 /\ password_input = Configured("password", "password")
          /\ LoggedIn => LoggedIn']_vars

\* the run of the accepted press goes on to load the workbook and show the
\* page, with credentials taken from the secrets
C12_Witness ==
    /\ at = "shown"
    /\ pressed = "Login"
    /\ LoggedIn
    /\ cached
    /\ "credentials" \in DOMAIN secrets
    /\ username_input = "owner"
    /\ cat_rows # <<>>


=============================================================================
